---- MODULE Spec2Model ----
(***************************************************************************)
(* A state-machine model of hex_physics:                                   *)
(*   - Collider::intersecting (src/src/collider.rs), the separating-axis   *)
(*     test, as a pure operator over integer vertices;                     *)
(*   - PhysicsManager (src/src/physics_manager.rs): detect, resolve,       *)
(*     check_collisions (with its parallel candidate search),              *)
(*     update_positions, clear_collisions and the per-frame update.        *)
(* Vectors are pairs <<x, y>> of integers; an f32 is modelled by an exact  *)
(* integer in a unit fine enough that every division the code performs on  *)
(* the modelled inputs is exact.                                           *)
(***************************************************************************)
EXTENDS Integers, Sequences, FiniteSets, TLC

\* ------------------------------------------------------------------ Option
None == [some |-> FALSE]
Some(v) == [some |-> TRUE, val |-> v]
IsSome(o) == o.some

\* ----------------------------------------------------------------- vectors
VAdd(u, v) == <<u[1] + v[1], u[2] + v[2]>>
VSub(u, v) == <<u[1] - v[1], u[2] - v[2]>>
VNeg(u) == <<0 - u[1], 0 - u[2]>>
VScale(u, k) == <<u[1] * k, u[2] * k>>
VDivExact(u, k) == <<u[1] \div k, u[2] \div k>>
Zero2 == <<0, 0>>

\* ------------------------------------------------ Collider (collider.rs)
\* Collider::rect: the four corners of a rectangle of the given half extents.
RectPoints(hx, hy) == << <<0 - hx, 0 - hy>>, <<0 - hx, hy>>, <<hx, hy>>, <<hx, 0 - hy>> >>

\* Collider::new: the fields of a fresh collider. The constructor returns Self
\* and looks at nothing in `points`.
ColliderNew(points, active) == [points |-> points, collisions |-> <<>>, active |-> active]

\* transform.matrix() * p.extend(1.0), for a transform that only translates.
WorldPoints(points, position) == [i \in 1..Len(points) |-> VAdd(points[i], position)]

\* The normal of edge i: (p2.y - p1.y, p1.x - p2.x), p2 the next vertex (cyclic).
EdgeNormal(pts, i) ==
  LET p1 == pts[i]
      p2 == pts[(i % Len(pts)) + 1]
  IN <<p2[2] - p1[2], p1[1] - p2[1]>>

Project(normal, p) == normal[1] * p[1] + normal[2] * p[2]

\* The running minimum of the projections of pts[1..k], None when k = 0.
RECURSIVE ProjMin(_, _, _)
ProjMin(normal, pts, k) ==
  IF k = 0 THEN None
  ELSE LET prev == ProjMin(normal, pts, k - 1)
           projected == Project(normal, pts[k])
       IN IF (IF IsSome(prev) THEN projected < prev.val ELSE TRUE)
          THEN Some(projected) ELSE prev

RECURSIVE ProjMax(_, _, _)
ProjMax(normal, pts, k) ==
  IF k = 0 THEN None
  ELSE LET prev == ProjMax(normal, pts, k - 1)
           projected == Project(normal, pts[k])
       IN IF (IF IsSome(prev) THEN projected > prev.val ELSE TRUE)
          THEN Some(projected) ELSE prev

\* a_max.and_then(|a| b_min.map(|b| a < b)).unwrap_or(true)
LessOrMissing(x, y) == IF IsSome(x) /\ IsSome(y) THEN x.val < y.val ELSE TRUE

\* The early return of the loop body for the axis `normal`.
SeparatedOn(normal, aPts, bPts) ==
  \/ LessOrMissing(ProjMax(normal, aPts, Len(aPts)), ProjMin(normal, bPts, Len(bPts)))
  \/ LessOrMissing(ProjMax(normal, bPts, Len(bPts)), ProjMin(normal, aPts, Len(aPts)))

\* Where intersecting can panic: the two indexings of lines 47-48, a_points[i] and
\* a_points[(i + 1) % a_points.len()], for the i the loop visits.
intersectingPanics(aPoints, bPoints) ==
  \E i \in 1..Len(aPoints) :
    \/ Len(aPoints) = 0
    \/ i \notin DOMAIN aPoints
    \/ ((i % Len(aPoints)) + 1) \notin DOMAIN aPoints

\* Collider::intersecting: the loop runs over the edges of the first shape only.
intersecting(aPoints, aPos, bPoints, bPos) ==
  LET a_points == WorldPoints(aPoints, aPos)
      b_points == WorldPoints(bPoints, bPos)
  IN \A i \in 1..Len(a_points) : ~SeparatedOn(EdgeNormal(a_points, i), a_points, b_points)

\* -------------------------------------------------------------- bounds
MaxStepAmount == 2
MaxRate == 2
MaxTime == 5
MaxCoord == 2

RECURSIVE Gcd(_, _)
Gcd(a, b) == IF b = 0 THEN a ELSE Gcd(b, a % b)
RECURSIVE LcmUpTo(_)
LcmUpTo(n) == IF n <= 1 THEN 1 ELSE LET l == LcmUpTo(n - 1) IN (l * n) \div Gcd(l, n)
\* The length unit: every force below is a multiple of it, so that
\* force * delta / step_amount is exact for every step_amount of the model.
Unit == LcmUpTo(MaxStepAmount)

Min2(a, b) == IF a < b THEN a ELSE b
Max2(a, b) == IF a > b THEN a ELSE b
Abs(a) == IF a < 0 THEN 0 - a ELSE a

\* ------------------------- the narrow phase the manager calls (spec 4.1)
\* The overlap of the two projection intervals on `normal`, in units of |normal|.
AxisOverlap(normal, aPts, bPts) ==
  Min2(ProjMax(normal, aPts, Len(aPts)).val, ProjMax(normal, bPts, Len(bPts)).val)
    - Max2(ProjMin(normal, aPts, Len(aPts)).val, ProjMin(normal, bPts, Len(bPts)).val)

\* The axes of a pair: the edge normals of A, then those of B.
PairAxes(aPts, bPts) ==
  [i \in 1..(Len(aPts) + Len(bPts)) |->
     IF i <= Len(aPts) THEN EdgeNormal(aPts, i) ELSE EdgeNormal(bPts, i - Len(aPts))]

\* The length of an axis-parallel normal (the colliders of a scene are rectangles).
AxisLen(normal) == Abs(normal[1]) + Abs(normal[2])

\* The index of the smallest of ov[1..k], the first on a tie.
RECURSIVE BestAxis(_, _)
BestAxis(ov, k) ==
  IF k = 1 THEN 1
  ELSE LET prev == BestAxis(ov, k - 1)
       IN IF ov[k] < ov[prev] THEN k ELSE prev

\* intersecting as the manager uses it: None when some axis of either shape has
\* no positive overlap, else the minimum-translation vector, pointing from A to B.
minTranslation(aPoints, aPos, bPoints, bPos) ==
  LET aPts == WorldPoints(aPoints, aPos)
      bPts == WorldPoints(bPoints, bPos)
      axes == PairAxes(aPts, bPts)
      ov == [i \in 1..Len(axes) |-> AxisOverlap(axes[i], aPts, bPts) \div AxisLen(axes[i])]
  IN IF \E i \in 1..Len(axes) : ov[i] <= 0
     THEN None
     ELSE LET k == BestAxis(ov, Len(axes))
              dir == <<axes[k][1] \div AxisLen(axes[k]), axes[k][2] \div AxisLen(axes[k])>>
              sign == IF Project(dir, VSub(bPos, aPos)) < 0 THEN 0 - 1 ELSE 1
          IN Some(VScale(dir, sign * ov[k]))

\* ------------------------------------------------------------------ state
VARIABLES
  sat,          \* the operands and results of the stand-alone intersecting calls
  rate,         \* PhysicsManager.rate
  step_amount,  \* PhysicsManager.step_amount
  count,        \* PhysicsManager.count
  scene,        \* per entity: the fields of its Collider and Transform that never change
  collisions,   \* per entity: Collider.collisions
  pos,          \* per entity: Transform.position
  phys,         \* per entity: Option<Physical>
  pc,           \* where update is: "idle", "loop" (update_positions), "par" (the parallel search)
  step,         \* the iteration of `for _ in 0..self.step_amount`
  cur,          \* the entity of `for e in em.entities.keys()`
  delta,        \* the delta of the current frame
  frames,       \* frames so far
  now,          \* the time elapsed so far, the sum of the deltas
  snap,         \* check_collisions: `entities`, the ids in insertion order
  spos,         \* check_collisions: the transform clones, by id
  sdet,         \* what detect returns on the clones, by ordered pair (evaluated once per pass)
  wk,           \* per worker: the index of its next candidate
  wphase,       \* per worker: "read" (before checked.read) or "write" (before checked.write)
  wpend,        \* per worker: `res`, computed and not yet returned
  results,      \* per worker: what its inner collect holds
  checked,      \* check_collisions: `checked`
  hist          \* history: what has been done, for the properties only

vars == <<sat, rate, step_amount, count, scene, collisions, pos, phys, pc, step, cur,
          delta, frames, now, snap, spos, sdet, wk, wphase, wpend, results, checked, hist>>

\* em.entities.keys(), in iteration order
EntityOrder == <<1, 2>>
Entities == {EntityOrder[i] : i \in DOMAIN EntityOrder}
\* The deltas a frame can see, after the clamp to max_delta of lines 237-241.
Deltas == {1, 2}
\* bounds.0, the world boundary of the spatial index: |x|, |y| <= WorldHalf
WorldHalf == 6 * Unit

Range(f) == {f[i] : i \in DOMAIN f}
PairKeys == {{a, b} : a, b \in Entities}

\* ------------------------------------------------ PhysicsManager::detect
\* Mutant of Eligible: the ignore set of the second collider is not consulted.
EligibleOneSidedIgnore(ac, bc) ==
  /\ \E a \in ac.layers : a \in bc.layers
  /\ ~(\E a \in ac.ignore : a \in bc.layers)

Eligible(ac, bc) ==
  /\ \E a \in ac.layers : a \in bc.layers
  /\ ~(\E a \in ac.ignore : a \in bc.layers)
  /\ ~(\E b \in bc.ignore : b \in ac.layers)

\* Mutant of detect: the pair is a ghost pair only when both colliders are ghosts.
detectGhostBoth(ac, at, ap, bc, bt, bp) ==
  IF Eligible(ac, bc)
  THEN LET min_translation == minTranslation(ac.points, at, bc.points, bt)
       IN IF IsSome(min_translation)
          THEN Some([ghost |-> ac.ghost /\ bc.ghost,
                     atr |-> IF IsSome(ap) THEN Some(VNeg(min_translation.val)) ELSE None,
                     btr |-> IF IsSome(bp) THEN Some(min_translation.val) ELSE None])
          ELSE None
  ELSE None

\* Mutant of detect: a translation is handed out to a body whether or not it has a Physical.
detectPushAnchors(ac, at, ap, bc, bt, bp) ==
  IF Eligible(ac, bc)
  THEN LET min_translation == minTranslation(ac.points, at, bc.points, bt)
       IN IF IsSome(min_translation)
          THEN Some([ghost |-> ac.ghost \/ bc.ghost,
                     atr |-> Some(VNeg(min_translation.val)),
                     btr |-> Some(min_translation.val)])
          ELSE None
  ELSE None

detect(ac, at, ap, bc, bt, bp) ==
  IF Eligible(ac, bc)
  THEN LET min_translation == minTranslation(ac.points, at, bc.points, bt)
       IN IF IsSome(min_translation)
          THEN Some([ghost |-> ac.ghost \/ bc.ghost,
                     atr |-> IF IsSome(ap) THEN Some(VNeg(min_translation.val)) ELSE None,
                     btr |-> IF IsSome(bp) THEN Some(min_translation.val) ELSE None])
          ELSE None
  ELSE None

\* ----------------------------------------------- PhysicsManager::resolve
\* st = [collisions, pos, moved]; `target` owns cache_collider and cache_transform.
\* moved (history) collects <<target, other_e>> for every position this writes.
\* Mutant of resolve: the id is pushed without looking for it in the list.
resolveAlwaysPush(st, ghost_col, other_e, target, tr) ==
  LET cols == [st.collisions EXCEPT ![target] = Append(@, other_e)]
  IN IF ~ghost_col /\ IsSome(tr)
     THEN [collisions |-> cols,
           pos |-> [st.pos EXCEPT ![target] = VAdd(@, tr.val)],
           moved |-> st.moved \cup {<<target, other_e>>}]
     ELSE [collisions |-> cols, pos |-> st.pos, moved |-> st.moved]

resolve(st, ghost_col, other_e, target, tr) ==
  LET cols == IF other_e \notin Range(st.collisions[target])
              THEN [st.collisions EXCEPT ![target] = Append(@, other_e)]
              ELSE st.collisions
  IN IF ~ghost_col /\ IsSome(tr)
     THEN [collisions |-> cols,
           pos |-> [st.pos EXCEPT ![target] = VAdd(@, tr.val)],
           moved |-> st.moved \cup {<<target, other_e>>}]
     ELSE [collisions |-> cols, pos |-> st.pos, moved |-> st.moved]

\* Mutant of resolvePair: the second resolve call is missing.
resolvePairOneSided(st, h) == resolve(st, h.ghost, h.ae, h.be, h.btr)

\* The body of the `for` over the collected hits: resolve B, then A.
resolvePair(st, h) ==
  resolve(resolve(st, h.ghost, h.ae, h.be, h.btr), h.ghost, h.be, h.ae, h.atr)

RECURSIVE resolveAll(_, _)
resolveAll(st, hits) ==
  IF hits = <<>> THEN st ELSE resolveAll(resolvePair(st, Head(hits)), Tail(hits))

\* ------------------------------------------- the spatial index (spec 4.2)
\* QuadTree::insert: false for a position outside the boundary.
treeInsert(position) ==
  /\ Abs(position[1]) <= WorldHalf
  /\ Abs(position[2]) <= WorldHalf

\* QuadTree::query, for a bucket capacity no smaller than the number of entities:
\* the root never subdivides, its boundary meets every query box centred on an
\* inserted position, and the query returns every entry of the root's bucket.
treeQuery(inserted, e) == inserted

\* ------------------------------------- PhysicsManager::check_collisions
\* Mutant of passEntities: the result of tree.insert is not looked at.
RECURSIVE passEntitiesKeepRejected(_, _)
passEntitiesKeepRejected(positions, k) ==
  IF k = 0 THEN <<>>
  ELSE LET e == EntityOrder[k]
           rest == passEntitiesKeepRejected(positions, k - 1)
       IN IF scene[e].active /\ scene[e].tactive THEN Append(rest, e) ELSE rest

\* Lines 93-114: the active colliders with an active transform that the index accepts.
RECURSIVE passEntities(_, _)
passEntities(positions, k) ==
  IF k = 0 THEN <<>>
  ELSE LET e == EntityOrder[k]
           rest == passEntities(positions, k - 1)
       IN IF scene[e].active /\ scene[e].tactive /\ treeInsert(positions[e])
          THEN Append(rest, e) ELSE rest

NoEvals == [p \in PairKeys |-> 0]

\* The state a pass starts in, given the positions it snapshots.
BeginPass(positions) ==
  /\ snap' = passEntities(positions, Len(EntityOrder))
  /\ spos' = positions
  /\ sdet' = [a \in Entities |-> [b \in Entities |->
               detect(scene[a], positions[a], phys[a], scene[b], positions[b], phys[b])]]
  /\ wk' = [e \in Entities |-> 1]
  /\ wphase' = [e \in Entities |-> "read"]
  /\ wpend' = [e \in Entities |-> None]
  /\ results' = [e \in Entities |-> <<>>]
  /\ checked' = {}

\* Lines 126-145 for worker ae at its next candidate: read `checked`, and call
\* detect when the pair is not in it; a None from detect leaves the closure at
\* the `?` of line 140, before the push of line 147.
WorkerRead(ae) ==
  /\ pc = "par"
  /\ ae \in Range(snap)
  /\ wphase[ae] = "read"
  /\ wk[ae] <= Len(treeQuery(snap, ae))
  /\ LET be == treeQuery(snap, ae)[wk[ae]]
         res == <<ae, be>> \notin checked /\ <<be, ae>> \notin checked
         d == sdet[ae][be]
     IN IF res
        THEN /\ hist' = [hist EXCEPT !.evals[{ae, be}] = @ + 1]
             /\ IF IsSome(d)
                THEN /\ wpend' = [wpend EXCEPT ![ae] =
                                    Some([ae |-> ae, be |-> be, ghost |-> d.val.ghost,
                                          atr |-> d.val.atr, btr |-> d.val.btr])]
                     /\ wphase' = [wphase EXCEPT ![ae] = "write"]
                     /\ wk' = wk
                ELSE /\ wk' = [wk EXCEPT ![ae] = @ + 1]
                     /\ UNCHANGED <<wpend, wphase>>
        ELSE /\ wpend' = [wpend EXCEPT ![ae] = None]
             /\ wphase' = [wphase EXCEPT ![ae] = "write"]
             /\ UNCHANGED <<wk, hist>>
  /\ UNCHANGED <<sat, rate, step_amount, count, scene, collisions, pos, phys, pc, step,
                 cur, delta, frames, now, snap, spos, sdet, results, checked>>

\* Mutant of WorkerWrite: the worker resolves its hit itself, while the search runs.
WorkerWriteResolving(ae) ==
  /\ pc = "par"
  /\ ae \in Range(snap)
  /\ wphase[ae] = "write"
  /\ checked' = checked \cup {<<ae, treeQuery(snap, ae)[wk[ae]]>>}
  /\ results' = [results EXCEPT ![ae] =
                   IF IsSome(wpend[ae]) THEN Append(@, wpend[ae].val) ELSE @]
  /\ LET st == IF IsSome(wpend[ae])
               THEN resolvePair([collisions |-> collisions, pos |-> pos, moved |-> {}],
                                wpend[ae].val)
               ELSE [collisions |-> collisions, pos |-> pos, moved |-> {}]
     IN collisions' = st.collisions /\ pos' = st.pos
  /\ wpend' = [wpend EXCEPT ![ae] = None]
  /\ wphase' = [wphase EXCEPT ![ae] = "read"]
  /\ wk' = [wk EXCEPT ![ae] = @ + 1]
  /\ UNCHANGED <<sat, rate, step_amount, count, scene, phys, pc, step,
                 cur, delta, frames, now, snap, spos, sdet, hist>>

\* Line 147-149: push the pair, then hand `res` to the inner collect.
WorkerWrite(ae) ==
  /\ pc = "par"
  /\ ae \in Range(snap)
  /\ wphase[ae] = "write"
  /\ checked' = checked \cup {<<ae, treeQuery(snap, ae)[wk[ae]]>>}
  /\ results' = [results EXCEPT ![ae] =
                   IF IsSome(wpend[ae]) THEN Append(@, wpend[ae].val) ELSE @]
  /\ wpend' = [wpend EXCEPT ![ae] = None]
  /\ wphase' = [wphase EXCEPT ![ae] = "read"]
  /\ wk' = [wk EXCEPT ![ae] = @ + 1]
  /\ UNCHANGED <<sat, rate, step_amount, count, scene, collisions, pos, phys, pc, step,
                 cur, delta, frames, now, snap, spos, sdet, hist>>

\* flatten().collect(): the workers' results, in the order of `entities`.
RECURSIVE collected(_, _)
collected(res, k) ==
  IF k = 0 THEN <<>> ELSE collected(res, k - 1) \o res[snap[k]]

WorkersDone == \A e \in Range(snap) : wphase[e] = "read" /\ wk[e] > Len(treeQuery(snap, e))

\* ------------------------------------- PhysicsManager::update_positions
\* Lines 197-204: the velocity from the last position, then the last position.
\* A velocity is kept as the exact quotient num / den.
bookkeep(p, position, d) ==
  [p EXCEPT !.vel = IF IsSome(p.last)
                    THEN Some([num |-> VSub(position, p.last.val), den |-> d])
                    ELSE @,
            !.last = Some(position)]

IsActivePhysical(e) == IsSome(phys[e]) /\ phys[e].val.active

\* Mutant of integrateAll: the displacement is divided by step_amount as in a sub-step.
integrateAllDivided(d) ==
  [e \in Entities |->
     IF IsActivePhysical(e)
     THEN VAdd(pos[e], VDivExact(VScale(phys[e].val.force, d), step_amount))
     ELSE pos[e]]

\* Lines 185-188 and 197-204, step_amount = None: every active body, whole delta.
integrateAll(d) ==
  [e \in Entities |->
     IF IsActivePhysical(e) THEN VAdd(pos[e], VScale(phys[e].val.force, d)) ELSE pos[e]]

\* Lines 176-179: one body, one sub-step.
integrateStep(e, d, n) == VAdd(pos[e], VDivExact(VScale(phys[e].val.force, d), n))

\* ------------------------------------- PhysicsManager::clear_collisions
\* Mutant of clear_collisions: the lists are left as they are.
clear_collisionsKeep(cols) == cols

clear_collisions(cols) == [e \in Entities |-> IF scene[e].active THEN <<>> ELSE cols[e]]

\* ------------------------------------------------ PhysicsManager::update
\* Mutant of tickDue: the tick waits for the counter to pass rate.
tickDueLate == count > rate

\* Line 246: whether this frame is a physics tick.
tickDue == count >= rate

\* Lines 254-258: no tick due; one integration with the whole delta, no detection.
FrameNoTick(d) ==
  /\ pc = "idle"
  /\ now + d <= MaxTime
  /\ ~tickDue
  /\ pos' = integrateAll(d)
  /\ phys' = [e \in Entities |->
                IF IsActivePhysical(e) THEN Some(bookkeep(phys[e].val, integrateAll(d)[e], d))
                ELSE phys[e]]
  /\ count' = count + 1
  /\ delta' = d
  /\ frames' = frames + 1
  /\ now' = now + d
  /\ hist' = [hist EXCEPT !.lastFrame = Some([tick |-> FALSE, countBefore |-> count]),
                          !.sinceTick = @ + 1]
  /\ UNCHANGED <<sat, rate, step_amount, scene, collisions, pc, step, cur,
                 snap, spos, sdet, wk, wphase, wpend, results, checked>>

\* Lines 246-251: a tick; reset the counter, clear the lists, enter the sub-step loop.
FrameTick(d) ==
  /\ pc = "idle"
  /\ now + d <= MaxTime
  /\ tickDue
  /\ count' = 0
  /\ collisions' = clear_collisions(collisions)
  /\ pc' = "loop"
  /\ step' = 1
  /\ cur' = 1
  /\ delta' = d
  /\ frames' = frames + 1
  /\ now' = now + d
  /\ hist' = [hist EXCEPT !.lastFrame = Some([tick |-> TRUE, countBefore |-> count]),
                          !.resolved = NoEvals,
                          !.gap = IF hist.ticks > 0 THEN Some(hist.sinceTick) ELSE None,
                          !.sinceTick = 0,
                          !.ticks = @ + 1,
                          !.passes = 0,
                          !.integrated = {},
                          !.tickPasses = None,
                          !.tickStart = Some([pos |-> pos, collisions |-> collisions]),
                          !.recorded = [e \in Entities |-> {}],
                          !.static = FALSE]
  /\ UNCHANGED <<sat, rate, step_amount, scene, pos, phys,
                 snap, spos, sdet, wk, wphase, wpend, results, checked>>

\* Lines 168-182: the next entity has an active Physical; move it by one sub-step
\* and enter check_collisions.
LoopIntegrate ==
  /\ pc = "loop"
  /\ step <= step_amount
  /\ cur <= Len(EntityOrder)
  /\ IsActivePhysical(EntityOrder[cur])
  /\ LET e == EntityOrder[cur]
         moved == [pos EXCEPT ![e] = integrateStep(e, delta, step_amount)]
     IN /\ pos' = moved
        /\ BeginPass(moved)
        /\ hist' = [hist EXCEPT !.passes = @ + 1,
                                !.integrated = @ \cup {e},
                                !.static = hist.passes >= 1 /\ pos = spos /\ moved = spos,
                                !.evals = NoEvals]
  /\ pc' = "par"
  /\ UNCHANGED <<sat, rate, step_amount, count, scene, collisions, phys, step, cur,
                 delta, frames, now>>

\* Lines 169-173: the next entity has no active Physical; nothing happens for it.
LoopSkip ==
  /\ pc = "loop"
  /\ step <= step_amount
  /\ cur <= Len(EntityOrder)
  /\ ~IsActivePhysical(EntityOrder[cur])
  /\ cur' = cur + 1
  /\ UNCHANGED <<sat, rate, step_amount, count, scene, collisions, pos, phys, pc, step,
                 delta, frames, now, snap, spos, sdet, wk, wphase, wpend, results, checked, hist>>

\* Lines 117-159 after the parallel search, then lines 184-204 for the entity
\* whose integration started the pass: resolve every collected hit in order,
\* read the entity's position back, and do its velocity bookkeeping.
FinishPass ==
  /\ pc = "par"
  /\ WorkersDone
  /\ LET e == EntityOrder[cur]
         hits == collected(results, Len(snap))
         st == resolveAll([collisions |-> collisions, pos |-> pos, moved |-> hist.moved], hits)
     IN /\ collisions' = st.collisions
        /\ pos' = st.pos
        /\ phys' = [phys EXCEPT ![e] = Some(bookkeep(phys[e].val, st.pos[e], delta))]
        /\ hist' = [hist EXCEPT !.moved = st.moved,
                                !.recorded = [t \in Entities |->
                                   @[t] \cup {hits[i].be : i \in {j \in DOMAIN hits : hits[j].ae = t}}
                                        \cup {hits[i].ae : i \in {j \in DOMAIN hits : hits[j].be = t}}],
                                !.resolved = [p \in PairKeys |->
                                   @[p] + Cardinality({i \in DOMAIN hits : {hits[i].ae, hits[i].be} = p})]]
  /\ cur' = cur + 1
  /\ pc' = "loop"
  /\ UNCHANGED <<sat, rate, step_amount, count, scene, step, delta, frames, now,
                 snap, spos, sdet, wk, wphase, wpend, results, checked>>

\* Line 251: the entities are exhausted; the next sub-step.
LoopNextStep ==
  /\ pc = "loop"
  /\ step <= step_amount
  /\ cur > Len(EntityOrder)
  /\ step' = step + 1
  /\ cur' = 1
  /\ hist' = [hist EXCEPT !.integrated = {}]
  /\ UNCHANGED <<sat, rate, step_amount, count, scene, collisions, pos, phys, pc,
                 delta, frames, now, snap, spos, sdet, wk, wphase, wpend, results, checked>>

\* Line 258 on a tick frame: the sub-steps are done.
TickEnd ==
  /\ pc = "loop"
  /\ step > step_amount
  /\ count' = count + 1
  /\ pc' = "idle"
  /\ hist' = [hist EXCEPT !.tickPasses = Some(hist.passes), !.tickStart = None]
  /\ UNCHANGED <<sat, rate, step_amount, scene, collisions, pos, phys, step, cur,
                 delta, frames, now, snap, spos, sdet, wk, wphase, wpend, results, checked>>

\* ------------------------------------------------------------ the scenes
Body == RectPoints(Unit, Unit)

ColliderOf(layers, ignore, ghost, active, tactive) ==
  [points |-> Body, layers |-> layers, ignore |-> ignore, ghost |-> ghost,
   active |-> active, tactive |-> tactive]

PhysicalOf(force, active) == Some([force |-> force, active |-> active, last |-> None, vel |-> None])

\* Entity 1 sits at the origin; entity 2 overlaps it, is apart, or is out of the world.
Plain == ColliderOf({1}, {}, FALSE, TRUE, TRUE)
SecondColliders ==
  {Plain, ColliderOf({1}, {}, TRUE, TRUE, TRUE),
   ColliderOf({2}, {}, FALSE, TRUE, TRUE), ColliderOf({1, 2}, {}, FALSE, TRUE, TRUE),
   ColliderOf({1}, {1}, FALSE, TRUE, TRUE),
   ColliderOf({1}, {}, FALSE, FALSE, TRUE), ColliderOf({1}, {}, FALSE, TRUE, FALSE)}
\* The colliders of entities 1 and 2: entity 1 is plain, or ignores tag 2 next to
\* a collider that carries it.
ColliderPairs ==
  {<<Plain, c>> : c \in SecondColliders}
    \cup {<<ColliderOf({1}, {2}, FALSE, TRUE, TRUE), ColliderOf({1, 2}, {}, FALSE, TRUE, TRUE)>>}
FirstPhysicals == {None, PhysicalOf(<<Unit, 0>>, TRUE)}
SecondPhysicals == {None, PhysicalOf(Zero2, TRUE), PhysicalOf(<<0 - Unit, 0>>, FALSE)}
\* The last position lies outside the world boundary of the spatial index; there
\* the colliders are plain, since the pass leaves the entity out whatever they are.
OutOfWorld == <<WorldHalf + 1, 0>>
SecondPositions == {<<Unit, 0>>, <<4 * Unit, 0>>, OutOfWorld}

\* The operands of a stand-alone call: convex polygons with small integer vertices.
\* Square is Collider::rect in a unit of one half, so that the unit square of
\* the floating-point code has the corners (+-1, +-1).
Square == RectPoints(1, 1)
Slab == RectPoints(2, 1)
Triangle == << <<0 - 2, 1>>, <<1, 0 - 2>>, <<1, 1>> >>
Diamond == << <<0, 0 - 2>>, <<0 - 2, 0>>, <<0, 2>>, <<2, 0>> >>
Shapes == {Square, Slab, Triangle, Diamond}
\* Point lists that are no polygon: none, one or two points.
NoPoints == <<>>
OnePoint == << <<0, 0>> >>
Segment == << <<0 - 1, 0>>, <<1, 0>> >>
DegenerateShapes == {NoPoints, OnePoint, Segment}
Offsets == {<<x, y>> : x, y \in (0 - MaxCoord)..MaxCoord}

SatIdle == [stage |-> "unused"]

NoHistory ==
  [evals |-> NoEvals, passes |-> 0, integrated |-> {}, lastFrame |-> None, gap |-> None,
   sinceTick |-> 0, ticks |-> 0, moved |-> {}, tickPasses |-> None, resolved |-> NoEvals,
   tickStart |-> None, recorded |-> [e \in Entities |-> {}], static |-> FALSE]

\* PhysicsManager::new and a scene of freshly constructed components.
InitManager(r, n, c1, c2, p1, p2, x2) ==
  /\ rate = r
  /\ step_amount = n
  /\ count = 0
  /\ scene = <<c1, c2>>
  /\ collisions = [e \in Entities |-> <<>>]
  /\ pos = <<Zero2, x2>>
  /\ phys = <<p1, p2>>
  /\ step = 1
  /\ cur = 1
  /\ delta = 1
  /\ frames = 0
  /\ now = 0
  /\ snap = <<>>
  /\ spos = <<Zero2, x2>>
  /\ sdet = [a \in Entities |-> [b \in Entities |-> None]]
  /\ wk = [e \in Entities |-> 1]
  /\ wphase = [e \in Entities |-> "read"]
  /\ wpend = [e \in Entities |-> None]
  /\ results = [e \in Entities |-> <<>>]
  /\ checked = {}
  /\ hist = NoHistory

Init ==
  /\ sat = SatIdle
  /\ pc = "idle"
  /\ \E r \in 1..MaxRate, n \in 1..MaxStepAmount,
        c \in ColliderPairs,
        p1 \in FirstPhysicals, p2 \in SecondPhysicals, x2 \in SecondPositions :
       /\ x2 = OutOfWorld => c = <<Plain, Plain>>
       /\ InitManager(r, n, c[1], c[2], p1, p2, x2)

Next ==
  \/ \E d \in Deltas : FrameNoTick(d)
  \/ \E d \in Deltas : FrameTick(d)
  \/ LoopIntegrate
  \/ LoopSkip
  \/ \E e \in Entities : WorkerRead(e)
  \/ \E e \in Entities : WorkerWrite(e)
  \/ FinishPass
  \/ LoopNextStep
  \/ TickEnd

Spec == Init /\ [][Next]_vars

\* ------------------------------------- intersecting called on its own
\* a.intersecting(ta, b, tb), for the operands drawn at the start.
SatCall ==
  /\ sat.stage = "new"
  /\ sat' = [sat EXCEPT !.stage = "ab",
                        !.failed = intersectingPanics(sat.aPoints, sat.bPoints),
                        !.ab = intersecting(sat.aPoints, sat.aPos, sat.bPoints, sat.bPos)]
  /\ UNCHANGED <<rate, step_amount, count, scene, collisions, pos, phys, pc, step, cur,
                 delta, frames, now, snap, spos, sdet, wk, wphase, wpend, results, checked,
                 hist>>

\* b.intersecting(tb, a, ta), the same pair asked the other way round.
SatCallSwapped ==
  /\ sat.stage = "ab"
  /\ sat' = [sat EXCEPT !.stage = "both",
                        !.ba = intersecting(sat.bPoints, sat.bPos, sat.aPoints, sat.aPos)]
  /\ UNCHANGED <<rate, step_amount, count, scene, collisions, pos, phys, pc, step, cur,
                 delta, frames, now, snap, spos, sdet, wk, wphase, wpend, results, checked,
                 hist>>

InitSat ==
  /\ pc = "off"
  /\ InitManager(1, 1, Plain, Plain, None, None, <<4 * Unit, 0>>)
  /\ \E a \in Shapes, b \in Shapes, o \in Offsets :
       sat = [stage |-> "new", aPoints |-> ColliderNew(a, TRUE).points, aPos |-> Zero2,
              bPoints |-> ColliderNew(b, TRUE).points, bPos |-> o,
              failed |-> FALSE, ab |-> FALSE, ba |-> FALSE]

NextSat == SatCall \/ SatCallSwapped

SpecSat == InitSat /\ [][NextSat]_vars

\* The same two calls for operands of which at least one has fewer than three
\* points: Collider::new has built both.
InitDegenerate ==
  /\ pc = "off"
  /\ InitManager(1, 1, Plain, Plain, None, None, <<4 * Unit, 0>>)
  /\ \E a \in Shapes \cup DegenerateShapes, b \in Shapes \cup DegenerateShapes, o \in Offsets :
       /\ a \in DegenerateShapes \/ b \in DegenerateShapes
       /\ sat = [stage |-> "new", aPoints |-> ColliderNew(a, TRUE).points, aPos |-> Zero2,
                 bPoints |-> ColliderNew(b, TRUE).points, bPos |-> o,
                 failed |-> FALSE, ab |-> FALSE, ba |-> FALSE]

SpecDegenerate == InitDegenerate /\ [][NextSat]_vars

\* The world points of the two operands.
SatA == WorldPoints(sat.aPoints, sat.aPos)
SatB == WorldPoints(sat.bPoints, sat.bPos)

\* On the axis `normal` the two projection intervals share exactly one endpoint.
TouchOn(normal, aPts, bPts) ==
  \/ ProjMax(normal, aPts, Len(aPts)).val = ProjMin(normal, bPts, Len(bPts)).val
  \/ ProjMax(normal, bPts, Len(bPts)).val = ProjMin(normal, aPts, Len(aPts)).val

\* C1: two convex polygons whose projection intervals share exactly one endpoint
\* on some tested axis (an edge normal of the first shape) are reported as not
\* intersecting.
C1_TouchingIsNotIntersecting ==
  (sat.stage \in {"ab", "both"}
     /\ \E i \in 1..Len(SatA) : TouchOn(EdgeNormal(SatA, i), SatA, SatB))
    => sat.ab = FALSE

\* The separating-axis test over the edge normals of both shapes.
satReference(aPts, bPts) ==
  /\ \A i \in 1..Len(aPts) : ~SeparatedOn(EdgeNormal(aPts, i), aPts, bPts)
  /\ \A i \in 1..Len(bPts) : ~SeparatedOn(EdgeNormal(bPts, i), aPts, bPts)

\* C2: intersecting reports no intersection whenever an edge normal of either
\* shape separates the projections: its result is that of the two-shape test,
\* and the same whichever operand comes first.
C2_BothShapesAxesTested ==
  sat.stage = "both" => (sat.ab = satReference(SatA, SatB) /\ sat.ab = sat.ba)

\* ------------------------------------------------- the claims, C3 to C10
\* Eligibility as the specification words it, on the colliders of the scene.
SpecEligible(a, b) ==
  /\ scene[a].layers \cap scene[b].layers # {}
  /\ scene[a].ignore \cap scene[b].layers = {}
  /\ scene[b].ignore \cap scene[a].layers = {}

\* The shapes of a and b overlap at the positions the current pass snapshot.
Overlapping(a, b) ==
  IsSome(minTranslation(scene[a].points, spos[a], scene[b].points, spos[b]))

NoDuplicates(s) == \A i, j \in DOMAIN s : i # j => s[i] # s[j]

\* C3: detect yields a collision only for an eligible pair; for an ineligible
\* pair no event is recorded on either collider and no transform is moved, and
\* the answer is the same for (A, B) and (B, A).
C3_OnlyEligiblePairsCollide ==
  \A a, b \in Entities :
    /\ IsSome(sdet[a][b]) => SpecEligible(a, b)
    /\ IsSome(sdet[a][b]) <=> IsSome(sdet[b][a])
    /\ b \in Range(collisions[a]) => SpecEligible(a, b)
    /\ <<a, b>> \in hist.moved => SpecEligible(a, b)

\* A pass has run over an overlapping pair that is not eligible.
C3_Witness ==
  /\ pc = "loop"
  /\ hist.passes > 0
  /\ Range(snap) = {1, 2}
  /\ scene[1].layers \cap scene[2].layers # {}
  /\ ~SpecEligible(1, 2)
  /\ Overlapping(1, 2)
  /\ 2 \notin Range(collisions[1])

\* Entity a also overlaps an eligible third entity, in a pair that is no ghost pair.
PushedByThird(a, b) ==
  \E c \in Range(snap) \ {a, b} :
    ~scene[a].ghost /\ ~scene[c].ghost /\ SpecEligible(a, c) /\ Overlapping(a, c)

\* C4: a pass over an eligible overlapping pair with a ghost member records each
\* entity in the other's list and leaves both positions as they were (unless a
\* third entity pushes one of the two in the same pass).
C4_GhostRecordsWithoutPush ==
  [][(pc = "par" /\ pc' = "loop") =>
       \A a, b \in Range(snap) :
         (a # b /\ (scene[a].ghost \/ scene[b].ghost) /\ SpecEligible(a, b) /\ Overlapping(a, b))
           => /\ b \in Range(collisions'[a])
              /\ a \in Range(collisions'[b])
              /\ <<a, b>> \notin hist'.moved
              /\ PushedByThird(a, b) \/ pos'[a] = pos[a]
              /\ PushedByThird(b, a) \/ pos'[b] = pos[b]]_vars

\* A ghost pair was recorded although entity 1 has a Physical to push.
C4_Witness ==
  /\ pc = "loop"
  /\ scene[2].ghost
  /\ IsSome(phys[1])
  /\ IsSome(phys[2])
  /\ hist.resolved[{1, 2}] > 0
  /\ 2 \in Range(collisions[1])
  /\ 1 \in Range(collisions[2])

\* C5: no collisions list ever holds the same entity id twice.
C5_NoDuplicateCollisions == \A e \in Entities : NoDuplicates(collisions[e])

\* The same pair was resolved several times since the lists were cleared.
C5_Witness ==
  /\ hist.resolved[{1, 2}] >= 2
  /\ 2 \in Range(collisions[1])

\* C6: within one detection pass detect is called at most once for each
\* unordered pair of entities.
C6_PairEvaluatedAtMostOnce == \A p \in PairKeys : hist.evals[p] <= 1

\* C7: in every sub-step all active physical bodies are integrated before the
\* one detection pass of that sub-step, so a tick runs step_amount passes.
C7_IntegrateAllThenOnePass ==
  /\ pc = "par" => \A e \in Entities : IsActivePhysical(e) => e \in hist.integrated
  /\ IsSome(hist.tickPasses) => hist.tickPasses.val = step_amount

\* C8: a frame is a tick exactly when the counter has reached rate; the counter
\* is reset for the tick, and between two consecutive ticks there are exactly
\* rate - 1 frames that are no tick.
C8_TickEveryRateFrames ==
  /\ IsSome(hist.lastFrame) =>
       /\ hist.lastFrame.val.tick <=> hist.lastFrame.val.countBefore >= rate
       /\ hist.lastFrame.val.countBefore <= rate
  /\ pc \in {"loop", "par"} => count = 0
  /\ IsSome(hist.gap) => hist.gap.val = rate - 1

\* Two ticks have happened for a rate above one.
C8_Witness ==
  /\ rate > 1
  /\ IsSome(hist.gap)
  /\ pc = "idle"

\* C9: a frame with no tick due leaves every collisions list alone, runs no
\* detection and applies no correction, and moves each active physical body by
\* exactly force * delta.
C9_NoTickFrameIntegratesOnly ==
  [][(frames' = frames + 1 /\ count < rate) =>
       /\ collisions' = collisions
       /\ pc' = "idle"
       /\ hist'.moved = hist.moved
       /\ hist'.passes = hist.passes
       /\ \A e \in Entities :
            pos'[e] = IF IsSome(phys[e]) /\ phys[e].val.active
                      THEN VAdd(pos[e], VScale(phys[e].val.force, delta'))
                      ELSE pos[e]]_vars

\* A frame that was no tick moved entity 1 by its force times a delta of 2.
C9_Witness ==
  /\ frames = 1
  /\ delta = 2
  /\ ~hist.lastFrame.val.tick
  /\ IsSome(phys[1])
  /\ step_amount > 1
  /\ pos[1] = VScale(phys[1].val.force, 2)

\* C10: a pass records every hit it resolves on both colliders, and no list
\* ever names an entity whose own list does not name the owner in return.
C10_RecordingIsTwoSided ==
  [][(pc = "par" /\ pc' = "loop") =>
       /\ \A i \in DOMAIN collected(results, Len(snap)) :
            LET h == collected(results, Len(snap))[i]
            IN h.be \in Range(collisions'[h.ae]) /\ h.ae \in Range(collisions'[h.be])
       /\ \A a, b \in Entities :
            b \in Range(collisions'[a]) <=> a \in Range(collisions'[b])]_vars

\* A pass resolved the pair of entities 1 and 2 and both lists name the other.
C10_Witness ==
  /\ pc = "loop"
  /\ hist.resolved[{1, 2}] > 0
  /\ 2 \in Range(collisions[1])
  /\ 1 \in Range(collisions[2])
  /\ ~scene[1].ghost /\ ~scene[2].ghost

\* ------------------------------------------------ the claims, C11 to C20
\* The hits the finished search hands to the resolve loop, and how many of them
\* name the ordered pair (a, b).
passHits == collected(results, Len(snap))
hitsOf(a, b) == Cardinality({i \in DOMAIN passHits : passHits[i].ae = a /\ passHits[i].be = b})

\* The pair (a, b) of the pass: two different bodies, neither a ghost, both with a
\* Physical, that the pass resolves exactly once, as (a, b).
ResolvedOnce(a, b) ==
  /\ a # b
  /\ ~scene[a].ghost /\ ~scene[b].ghost
  /\ IsSome(phys[a]) /\ IsSome(phys[b])
  /\ hitsOf(a, b) = 1
  /\ hitsOf(b, a) = 0

\* C11: one resolution of two overlapping non-ghost bodies that both have a
\* Physical moves each by half the minimum-translation vector m, A by -m/2 and
\* B by +m/2, so that their relative displacement is exactly m.
C11_EachBodyMovesHalf ==
  [][(pc = "par" /\ pc' = "loop") =>
       \A a, b \in Range(snap) :
         ResolvedOnce(a, b) =>
           LET m == minTranslation(scene[a].points, spos[a], scene[b].points, spos[b]).val
           IN /\ VScale(VSub(pos'[a], pos[a]), 2) = VNeg(m)
              /\ VScale(VSub(pos'[b], pos[b]), 2) = m
              /\ VSub(VSub(pos'[b], pos'[a]), VSub(pos[b], pos[a])) = m]_vars

\* C12: a body without a Physical is an immovable anchor: no step of the manager,
\* and so no detection and resolution pass, changes its position, whatever it
\* overlaps, and every hit a pass resolves is still recorded on it.
C12_AnchorIsNeverMoved ==
  [][\A e \in Entities :
       ~IsSome(phys[e]) =>
         /\ pos'[e] = pos[e]
         /\ (pc = "par" /\ pc' = "loop") =>
              \A i \in DOMAIN passHits :
                /\ passHits[i].ae = e => passHits[i].be \in Range(collisions'[e])
                /\ passHits[i].be = e => passHits[i].ae \in Range(collisions'[e])]_vars

\* A pass pushed a body off an anchor it overlapped: the anchor, entity 1, is
\* where it started and has the event in its list.
C12_Witness ==
  /\ pc = "loop"
  /\ ~IsSome(phys[1])
  /\ ~scene[1].ghost /\ ~scene[2].ghost
  /\ <<2, 1>> \in hist.moved
  /\ 2 \in Range(collisions[1])
  /\ pos[1] = Zero2

\* C13: a collider with fewer than three points is rejected by Collider::new or
\* makes intersecting fail: a call with such an operand never returns an
\* ordinary answer.
C13_DegenerateFailsFast ==
  (sat.stage \in {"ab", "both"} /\ (Len(sat.aPoints) < 3 \/ Len(sat.bPoints) < 3))
    => sat.failed

\* The spatial index refuses entity e at the position the current pass snapshot.
Rejected(e) == scene[e].active /\ scene[e].tactive /\ ~treeInsert(spos[e])

\* C14: an entity whose position the spatial index refuses is left out of the
\* pass: it is not among the entities queried or returned as candidates, detect
\* is never called for it, and the pass appends nothing to its list, adds its id
\* to no other list and does not move it.
C14_RejectedEntityIsExcluded ==
  [][pc = "par" =>
       \A e \in Entities :
         Rejected(e) =>
           /\ e \notin Range(snap)
           /\ \A o \in Entities : hist.evals[{e, o}] = 0
           /\ collisions'[e] = collisions[e]
           /\ pos'[e] = pos[e]
           /\ \A o \in Entities :
                e \in Range(collisions'[o]) => e \in Range(collisions[o])]_vars

\* A pass has run while entity 1 overlapped the refused entity 2, an eligible
\* partner: neither list names the other.
C14_Witness ==
  /\ pc = "loop"
  /\ hist.passes > 0
  /\ Rejected(2)
  /\ 1 \in Range(snap)
  /\ SpecEligible(1, 2)
  /\ Overlapping(1, 2)
  /\ collisions[2] = <<>>
  /\ 2 \notin Range(collisions[1])

\* The candidate search of one pass when a single worker runs the closure for
\* the entities in order: what it has collected and pushed to `checked` after
\* the first j of the (entity, candidate) pairs.
RECURSIVE scanSequential(_, _, _)
scanSequential(ents, positions, j) ==
  IF j = 0 THEN [hits |-> <<>>, checked |-> {}]
  ELSE LET prev == scanSequential(ents, positions, j - 1)
           ae == ents[((j - 1) \div Len(ents)) + 1]
           be == treeQuery(ents, ae)[((j - 1) % Len(ents)) + 1]
           d == detect(scene[ae], positions[ae], phys[ae], scene[be], positions[be], phys[be])
       IN IF <<ae, be>> \notin prev.checked /\ <<be, ae>> \notin prev.checked
          THEN IF IsSome(d)
               THEN [hits |-> Append(prev.hits,
                                     [ae |-> ae, be |-> be, ghost |-> d.val.ghost,
                                      atr |-> d.val.atr, btr |-> d.val.btr]),
                     checked |-> prev.checked \cup {<<ae, be>>}]
               ELSE prev
          ELSE [prev EXCEPT !.checked = @ \cup {<<ae, be>>}]

\* One check_collisions under that schedule, from the lists and positions st.
passSequential(st) ==
  LET ents == passEntities(st.pos, Len(EntityOrder))
  IN resolveAll(st, scanSequential(ents, st.pos, Len(ents) * Len(ents)).hits)

\* The first i (sub-step, entity) iterations of a tick under that schedule.
RECURSIVE tickSequential(_, _)
tickSequential(st, i) ==
  IF i = 0 THEN st
  ELSE LET prev == tickSequential(st, i - 1)
           e == EntityOrder[((i - 1) % Len(EntityOrder)) + 1]
       IN IF IsActivePhysical(e)
          THEN passSequential(
                 [prev EXCEPT !.pos[e] =
                    VAdd(@, VDivExact(VScale(phys[e].val.force, delta), step_amount))])
          ELSE prev

\* The lists and positions the current tick ends with under that schedule.
tickReference ==
  tickSequential([collisions |-> clear_collisions(hist.tickStart.val.collisions),
                  pos |-> hist.tickStart.val.pos, moved |-> {}],
                 step_amount * Len(EntityOrder))

\* C15: the positions and the collisions lists a tick ends with do not depend on
\* the number of detection workers or on their interleaving: they are those of
\* the run in which one worker searches the entities in order.
C15_TickOutcomeIsScheduleIndependent ==
  (pc = "loop" /\ step > step_amount) =>
    (pos = tickReference.pos /\ collisions = tickReference.collisions)

\* C16: a tick frame empties the list of every active collider before its first
\* detection pass, and the list of an active collider names only entities that a
\* resolve call of the current (or, between ticks, the latest) tick recorded on it.
C16_ListsHoldOnlyThisTick ==
  [][/\ (frames' = frames + 1 /\ count >= rate) =>
          (pc' = "loop" /\ hist'.passes = 0
             /\ \A e \in Entities : scene[e].active => collisions'[e] = <<>>)
     /\ \A e \in Entities :
          scene[e].active => Range(collisions'[e]) \subseteq hist'.recorded[e]]_vars

\* Entity 2 was pushed off entity 1 in an earlier tick, and the latest tick, which
\* ran a pass, left entity 2 out of the list of entity 1.
C16_Witness ==
  /\ pc = "idle"
  /\ hist.ticks >= 2
  /\ scene[1].active /\ scene[2].active
  /\ <<2, 1>> \in hist.moved
  /\ hist.recorded[1] # {}
  /\ 2 \notin Range(collisions[1])

\* C17: when a pass runs on the positions of the pass before it in the same tick
\* (hist.static: that pass moved nothing, nor did the integration since, and the
\* lists were not cleared in between), it leaves every collisions list exactly as
\* it found it: the same members, no entry added.
C17_SecondPassAddsNothing ==
  [][(pc = "par" /\ pc' = "loop" /\ hist.static) => collisions' = collisions]_vars

\* The second pass over an unmoved ghost overlap has finished, and the lists of
\* the two entities name each other.
C17_Witness ==
  /\ pc = "loop"
  /\ hist.static
  /\ hist.passes >= 2
  /\ Overlapping(1, 2)
  /\ 2 \in Range(collisions[1])
  /\ 1 \in Range(collisions[2])

\* C18: while the candidate search of a pass runs, no position and no collisions
\* list is written and the snapshots the workers read stay as the pass took
\* them; positions and lists change only in the step that ends the search, when
\* every worker has finished.
C18_NoWriteDuringSearch ==
  [][pc = "par" =>
       /\ pc' = "par" =>
            /\ pos' = pos /\ collisions' = collisions
            /\ snap' = snap /\ spos' = spos /\ sdet' = sdet
       /\ (pos' # pos \/ collisions' # collisions) => (WorkersDone /\ pc' = "loop")]_vars

\* The search is still running with the hit for the pair (1, 2) collected, and
\* the list of entity 1 does not name entity 2 yet.
C18_Witness ==
  /\ pc = "par"
  /\ ~WorkersDone
  /\ \E i \in DOMAIN results[1] : results[1][i].be = 2
  /\ 2 \notin Range(collisions[1])
  /\ pos = spos

\* C19: no collisions list ever holds the id of the entity that owns it, although
\* every entity of a pass is a candidate of its own query.
C19_NoSelfCollision == \A e \in Entities : e \notin Range(collisions[e])

\* The stored velocity of body e in the next state is the force of e.
VelocityIsForce(e) ==
  /\ IsSome(phys'[e].val.vel)
  /\ phys'[e].val.vel.val.num = VScale(phys[e].val.force, phys'[e].val.vel.val.den)

\* C20: for a body with an active Physical, a known last position and no
\* collision correction since (its displacement from the last position is the
\* integration of this step alone), the velocity stored by the step equals the
\* force, on a frame that is no tick and after each sub-step of a tick.
C20_VelocityIsDisplacementRate ==
  [][\A e \in Entities :
       (IsActivePhysical(e) /\ IsSome(phys[e].val.last)) =>
         /\ (frames' = frames + 1 /\ count < rate
               /\ VSub(pos'[e], phys[e].val.last.val) = VScale(phys[e].val.force, delta'))
              => VelocityIsForce(e)
         /\ (pc = "par" /\ pc' = "loop" /\ e = EntityOrder[cur]
               /\ VSub(pos'[e], phys[e].val.last.val)
                    = VDivExact(VScale(phys[e].val.force, delta), step_amount))
              => VelocityIsForce(e)]_vars

====
